---- MODULE Spec2Model ----
(***************************************************************************)
(* Model of TurtleDeconflictionNode (two_d_decon_sys.py): the two pose     *)
(* callbacks, the boundary steering of move_turtle, the proximity test of  *)
(* check_collision and the stop/advance override of avoid_collision.       *)
(*                                                                         *)
(* Units.  Coordinates are counted in half arena units (x = 4 is 2.0,      *)
(* x = 18 is 9.0, a distance of 2 is 1.0); on this dyadic grid the float   *)
(* arithmetic of the source is exact.  Speeds are counted in tenths        *)
(* (20 is 2.0, 10 is 1.0, 9 is 0.9).                                       *)
(*                                                                         *)
(* rclpy.spin runs the node on a single-threaded executor: each callback   *)
(* runs to completion, so each callback is one action.                     *)
(***************************************************************************)
EXTENDS Integers, Sequences, FiniteSets

\* ---------------------------------------------------------------- bounds
\* Headings delivered by the pose source are 0..MaxTheta.
MaxTheta == 1

\* ------------------------------------------------------ program constants
\* move_turtle: pose.x < 2.0, pose.x > 9.0, pose.y < 2.0, pose.y > 9.0
XMin == 4
XMax == 18
YMin == 4
YMax == 18
\* check_collision: distance < 1.0
Threshold == 2

\* Coordinates the pose source delivers: beyond, on and inside each margin
\* boundary (1.5, 2.0, 2.5, 3.0, 9.0, 9.5).
Coords == {3, 4, 5, 6, 18, 19}

Headings == 0..MaxTheta

Poses == [x : Coords, y : Coords, theta : Headings]

\* A smaller set of poses for the specifications that add the service
\* callbacks or split the pose callbacks into steps: beyond a margin boundary
\* (1.5), inside it 0.5 apart (2.5, 3.0) and far away (9.0).
FewPoses == [x : {3, 5, 6, 18}, y : {5, 6}, theta : {0}]

\* self.turtleN_pose = None
None == [x |-> -1, y |-> -1, theta |-> -1]

\* Twist(): every field zero
Twist == [linear |-> 0, angular |-> 0]

\* No message published on a topic yet.
NoCmd == [linear |-> -1, angular |-> -1]

\* Names move_turtle has no branch for.
Unregistered == {"turtle3"}

VARIABLES
    turtle1_pose,        \* self.turtle1_pose
    turtle2_pose,        \* self.turtle2_pose
    previous_x_turtle1,  \* self.previous_x_turtle1
    previous_y_turtle1,
    previous_x_turtle2,
    previous_y_turtle2,
    turtle1_cmd_vel,     \* latest message published on /turtle1/cmd_vel
    turtle2_cmd_vel,     \* latest message published on /turtle2/cmd_vel
    emitted,             \* messages published by the latest handler, in order
    callback,            \* the handler that ran last
    pose_msg,            \* the Pose the latest pose callback was given
    raised,              \* whether the latest handler raised to its caller
    logged,              \* level of the line the latest handler logged
    pc1,                 \* where pose_callback_turtle1 stands, "idle" if not running
    pc2                  \* where pose_callback_turtle2 stands, "idle" if not running

vars == <<turtle1_pose, turtle2_pose, previous_x_turtle1, previous_y_turtle1,
          previous_x_turtle2, previous_y_turtle2, turtle1_cmd_vel,
          turtle2_cmd_vel, emitted, callback, pose_msg, raised, logged,
          pc1, pc2>>

\* The node's fields as a handler sees them on entry; out collects what the
\* handler publishes, err whether an exception left it, log the level of
\* the line it logged.
Self ==
    [turtle1_pose |-> turtle1_pose, turtle2_pose |-> turtle2_pose,
     previous_x_turtle1 |-> previous_x_turtle1,
     previous_y_turtle1 |-> previous_y_turtle1,
     previous_x_turtle2 |-> previous_x_turtle2,
     previous_y_turtle2 |-> previous_y_turtle2,
     out |-> <<>>, err |-> FALSE, log |-> "none"]

\* self.get_logger().info / warn / error
get_logger(s, level) ==
    [s EXCEPT !.log = level]

\* publisher.publish(cmd), called from method by
publish(s, topic, cmd, by) ==
    [s EXCEPT !.out = Append(@, [topic |-> topic, cmd |-> cmd, by |-> by])]

\* Variant of near_boundary: the comparisons include the boundary itself.
near_boundary_inclusive(pose) ==
    pose.x >= XMax \/ pose.x <= XMin \/ pose.y >= YMax \/ pose.y <= YMin

\* Variant of near_boundary: only x is compared.
near_boundary_x_only(pose) ==
    pose.x > XMax \/ pose.x < XMin

\* move_turtle, line 76
near_boundary(pose) ==
    pose.x > XMax \/ pose.x < XMin \/ pose.y > YMax \/ pose.y < YMin

\* move_turtle, lines 75-81
steer(pose) ==
    IF near_boundary(pose)
    THEN [Twist EXCEPT !.linear = 10, !.angular = 9]
    ELSE [Twist EXCEPT !.linear = 20, !.angular = 0]

\* Variant of move_turtle: a default branch that treats any other name as
\* turtle1.
move_turtle_default_branch(s, turtle_name, pose) ==
    LET cmd == steer(pose) IN
    IF turtle_name = "turtle2"
    THEN publish([s EXCEPT !.previous_x_turtle2 = pose.x,
                           !.previous_y_turtle2 = pose.y],
                 "turtle2", cmd, "move_turtle")
    ELSE publish([s EXCEPT !.previous_x_turtle1 = pose.x,
                           !.previous_y_turtle1 = pose.y],
                 "turtle1", cmd, "move_turtle")

\* Variant of move_turtle: the previous position is not overwritten.
move_turtle_keeps_previous(s, turtle_name, pose) ==
    LET cmd == steer(pose) IN
    IF turtle_name = "turtle1"
    THEN publish(s, "turtle1", cmd, "move_turtle")
    ELSE IF turtle_name = "turtle2"
    THEN publish(s, "turtle2", cmd, "move_turtle")
    ELSE s

\* Variant of move_turtle: nothing is published for a pose at the position
\* recorded by the previous update.
move_turtle_skip_unchanged(s, turtle_name, pose) ==
    LET cmd == steer(pose) IN
    IF turtle_name = "turtle1"
    THEN IF pose.x = s.previous_x_turtle1 /\ pose.y = s.previous_y_turtle1
         THEN s
         ELSE publish([s EXCEPT !.previous_x_turtle1 = pose.x,
                                !.previous_y_turtle1 = pose.y],
                      "turtle1", cmd, "move_turtle")
    ELSE IF turtle_name = "turtle2"
    THEN IF pose.x = s.previous_x_turtle2 /\ pose.y = s.previous_y_turtle2
         THEN s
         ELSE publish([s EXCEPT !.previous_x_turtle2 = pose.x,
                                !.previous_y_turtle2 = pose.y],
                      "turtle2", cmd, "move_turtle")
    ELSE s

\* Variant of move_turtle: the command goes out on both topics.
move_turtle_both_topics(s, turtle_name, pose) ==
    LET cmd == steer(pose) IN
    IF turtle_name = "turtle1"
    THEN publish(publish([s EXCEPT !.previous_x_turtle1 = pose.x,
                                   !.previous_y_turtle1 = pose.y],
                         "turtle1", cmd, "move_turtle"),
                 "turtle2", cmd, "move_turtle")
    ELSE IF turtle_name = "turtle2"
    THEN publish(publish([s EXCEPT !.previous_x_turtle2 = pose.x,
                                   !.previous_y_turtle2 = pose.y],
                         "turtle2", cmd, "move_turtle"),
                 "turtle1", cmd, "move_turtle")
    ELSE s

\* move_turtle, lines 73-88: no else branch, another name does nothing
move_turtle(s, turtle_name, pose) ==
    LET cmd == steer(pose) IN
    IF turtle_name = "turtle1"
    THEN publish([s EXCEPT !.previous_x_turtle1 = pose.x,
                           !.previous_y_turtle1 = pose.y],
                 "turtle1", cmd, "move_turtle")
    ELSE IF turtle_name = "turtle2"
    THEN publish([s EXCEPT !.previous_x_turtle2 = pose.x,
                           !.previous_y_turtle2 = pose.y],
                 "turtle2", cmd, "move_turtle")
    ELSE s

\* Variant of avoid_collision: both turtles are stopped.
avoid_collision_stop_both(s) ==
    LET stop_cmd == [Twist EXCEPT !.linear = 0]
    IN  publish(publish(s, "turtle1", stop_cmd, "avoid_collision"),
                "turtle2", stop_cmd, "avoid_collision")

\* Variant of avoid_collision: the two publishers exchanged.
avoid_collision_swapped(s) ==
    LET stop_cmd == [Twist EXCEPT !.linear = 0]
        move_cmd == [Twist EXCEPT !.linear = 20]
    IN  publish(publish(s, "turtle2", stop_cmd, "avoid_collision"),
                "turtle1", move_cmd, "avoid_collision")

\* avoid_collision, lines 101-111
avoid_collision(s) ==
    LET stop_cmd == [Twist EXCEPT !.linear = 0]
        move_cmd == [Twist EXCEPT !.linear = 20]
    IN  publish(publish(s, "turtle1", stop_cmd, "avoid_collision"),
                "turtle2", move_cmd, "avoid_collision")

\* Variant of distance_below: the y difference is not squared.
distance_below_signed(a, b) ==
    (a.x - b.x) * (a.x - b.x) + (a.y - b.y) < Threshold * Threshold

\* Variant of distance_below: a distance of zero does not count.
distance_below_excludes_zero(a, b) ==
    LET d2 == (a.x - b.x) * (a.x - b.x) + (a.y - b.y) * (a.y - b.y)
    IN  0 < d2 /\ d2 < Threshold * Threshold

\* Variant of distance_below: a distance equal to the threshold counts.
distance_below_inclusive(a, b) ==
    (a.x - b.x) * (a.x - b.x) + (a.y - b.y) * (a.y - b.y) <= Threshold * Threshold

\* check_collision, lines 94-97: sqrt(dx^2 + dy^2) < 1.0; sqrt is monotone,
\* so the test is dx^2 + dy^2 < 1.0^2
distance_below(a, b) ==
    (a.x - b.x) * (a.x - b.x) + (a.y - b.y) * (a.y - b.y) < Threshold * Threshold

\* Variant of check_collision: without the test that both poses are set, a
\* missing pose counts as a collision.
check_collision_unguarded(s) ==
    IF s.turtle1_pose # None /\ s.turtle2_pose # None
    THEN IF distance_below(s.turtle1_pose, s.turtle2_pose)
         THEN avoid_collision(get_logger(s, "warn"))
         ELSE s
    ELSE avoid_collision(get_logger(s, "warn"))

\* Variant of check_collision: only turtle1_pose is tested before the
\* distance is taken.
check_collision_one_guard(s) ==
    IF s.turtle1_pose # None
    THEN IF s.turtle2_pose = None \/ distance_below(s.turtle1_pose, s.turtle2_pose)
         THEN avoid_collision(get_logger(s, "warn"))
         ELSE s
    ELSE s

\* check_collision, lines 90-99
check_collision(s) ==
    IF s.turtle1_pose # None /\ s.turtle2_pose # None
    THEN IF distance_below(s.turtle1_pose, s.turtle2_pose)
         THEN avoid_collision(get_logger(s, "warn"))
         ELSE s
    ELSE s

\* Variant of pose_callback_turtle1: the collision check runs before
\* move_turtle.
pose_callback_turtle1_check_first(s, pose) ==
    move_turtle(check_collision([s EXCEPT !.turtle1_pose = pose]), "turtle1", pose)

\* pose_callback_turtle1, lines 61-65
pose_callback_turtle1(s, pose) ==
    check_collision(move_turtle([s EXCEPT !.turtle1_pose = pose], "turtle1", pose))

\* pose_callback_turtle2, lines 67-71
pose_callback_turtle2(s, pose) ==
    check_collision(move_turtle([s EXCEPT !.turtle2_pose = pose], "turtle2", pose))

\* Variant of spawn_callback: a failed spawn also forgets turtle2.
spawn_callback_untracks(s, name, failed) ==
    IF failed
    THEN get_logger([s EXCEPT !.turtle2_pose = None], "error")
    ELSE get_logger(s, "info")

\* spawn_callback, lines 53-59: future.result() returns or raises
spawn_callback(s, name, failed) ==
    IF failed
    THEN get_logger(s, "error")
    ELSE get_logger(s, "info")

\* callback_set_pen, lines 129-134
callback_set_pen(s, failed) ==
    IF failed
    THEN get_logger(s, "error")
    ELSE s

\* The latest message on a topic once the handler's publications are delivered.
Latest(topic, out, old) ==
    LET on == SelectSeq(out, LAMBDA m : m.topic = topic)
    IN  IF on = <<>> THEN old ELSE on[Len(on)].cmd

\* The node and the two topics once a handler, or one step of it, has left
\* the fields as s.
Assign(s, handler, msg) ==
    /\ turtle1_pose' = s.turtle1_pose
    /\ turtle2_pose' = s.turtle2_pose
    /\ previous_x_turtle1' = s.previous_x_turtle1
    /\ previous_y_turtle1' = s.previous_y_turtle1
    /\ previous_x_turtle2' = s.previous_x_turtle2
    /\ previous_y_turtle2' = s.previous_y_turtle2
    /\ turtle1_cmd_vel' = Latest("turtle1", s.out, turtle1_cmd_vel)
    /\ turtle2_cmd_vel' = Latest("turtle2", s.out, turtle2_cmd_vel)
    /\ emitted' = s.out
    /\ callback' = handler
    /\ pose_msg' = msg
    /\ raised' = s.err
    /\ logged' = s.log

\* The node and the two topics after a handler that ran from entry to return
\* and left the fields as s.
Commit(s, handler, msg) ==
    /\ Assign(s, handler, msg)
    /\ UNCHANGED <<pc1, pc2>>

\* __init__, lines 15-36
Init ==
    /\ turtle1_pose = None
    /\ turtle2_pose = None
    /\ previous_x_turtle1 = 0
    /\ previous_y_turtle1 = 0
    /\ previous_x_turtle2 = 0
    /\ previous_y_turtle2 = 0
    /\ turtle1_cmd_vel = NoCmd
    /\ turtle2_cmd_vel = NoCmd
    /\ emitted = <<>>
    /\ callback = "init"
    /\ pose_msg = None
    /\ raised = FALSE
    /\ logged = "info"
    /\ pc1 = "idle"
    /\ pc2 = "idle"

\* A Pose arrives on /turtle1/pose.
PoseTurtle1 ==
    \E pose \in Poses :
        Commit(pose_callback_turtle1(Self, pose), "pose_callback_turtle1", pose)

\* A Pose arrives on /turtle2/pose.
PoseTurtle2 ==
    \E pose \in Poses :
        Commit(pose_callback_turtle2(Self, pose), "pose_callback_turtle2", pose)

\* move_turtle is handed a name that is neither turtle1 nor turtle2.
MoveUnregistered ==
    \E name \in Unregistered, pose \in Poses :
        Commit(move_turtle(Self, name, pose), "move_turtle", None)

Next ==
    \/ PoseTurtle1
    \/ PoseTurtle2
    \/ MoveUnregistered

Spec == Init /\ [][Next]_vars

\* The future of the /spawn call of __init__ (line 34) completes.
SpawnCallback ==
    \E failed \in BOOLEAN :
        Commit(spawn_callback(Self, "turtle2", failed), "spawn_callback", None)

\* The future of a set_pen call completes.
SetPenCallback ==
    \E failed \in BOOLEAN :
        Commit(callback_set_pen(Self, failed), "callback_set_pen", None)

\* A Pose of the smaller set arrives on /turtle1/pose.
FewPoseTurtle1 ==
    \E pose \in FewPoses :
        Commit(pose_callback_turtle1(Self, pose), "pose_callback_turtle1", pose)

\* A Pose of the smaller set arrives on /turtle2/pose.
FewPoseTurtle2 ==
    \E pose \in FewPoses :
        Commit(pose_callback_turtle2(Self, pose), "pose_callback_turtle2", pose)

NextServices ==
    \/ FewPoseTurtle1
    \/ FewPoseTurtle2
    \/ SpawnCallback
    \/ SetPenCallback

\* The pose callbacks together with the completion callbacks of the two
\* service clients.
SpecServices == Init /\ [][NextServices]_vars

\* The node's fields as a handler that is part-way through sees them: out
\* and log hold what has been published and logged since the latest pose
\* callback was entered.
Running ==
    [Self EXCEPT !.out = emitted, !.log = logged, !.err = raised]

\* Variant of ExecutorFree: an executor that runs callbacks concurrently.
ExecutorFree_concurrent == TRUE

\* rclpy.spin(node), line 140: the default executor is single-threaded and
\* takes the next callback only when the one before has returned.
ExecutorFree == pc1 = "idle" /\ pc2 = "idle"

\* pose_callback_turtle1 is entered and stores the pose, line 63.
Store1 ==
    /\ ExecutorFree
    /\ pc1 = "idle"
    /\ \E pose \in FewPoses :
           Assign([Self EXCEPT !.turtle1_pose = pose], "pose_callback_turtle1", pose)
    /\ pc1' = "move_turtle"
    /\ UNCHANGED pc2

\* pose_callback_turtle1 calls move_turtle, line 64; its pose argument is the
\* one line 63 stored, which only this callback writes.
Move1 ==
    /\ pc1 = "move_turtle"
    /\ Assign(move_turtle(Running, "turtle1", turtle1_pose), callback, pose_msg)
    /\ pc1' = "check_collision"
    /\ UNCHANGED pc2

\* pose_callback_turtle1 calls check_collision, line 65, and returns.
Check1 ==
    /\ pc1 = "check_collision"
    /\ Assign(check_collision(Running), callback, pose_msg)
    /\ pc1' = "idle"
    /\ UNCHANGED pc2

\* pose_callback_turtle2 is entered and stores the pose, line 69.
Store2 ==
    /\ ExecutorFree
    /\ pc2 = "idle"
    /\ \E pose \in FewPoses :
           Assign([Self EXCEPT !.turtle2_pose = pose], "pose_callback_turtle2", pose)
    /\ pc2' = "move_turtle"
    /\ UNCHANGED pc1

\* pose_callback_turtle2 calls move_turtle, line 70.
Move2 ==
    /\ pc2 = "move_turtle"
    /\ Assign(move_turtle(Running, "turtle2", turtle2_pose), callback, pose_msg)
    /\ pc2' = "check_collision"
    /\ UNCHANGED pc1

\* pose_callback_turtle2 calls check_collision, line 71, and returns.
Check2 ==
    /\ pc2 = "check_collision"
    /\ Assign(check_collision(Running), callback, pose_msg)
    /\ pc2' = "idle"
    /\ UNCHANGED pc1

NextSteps ==
    \/ Store1
    \/ Move1
    \/ Check1
    \/ Store2
    \/ Move2
    \/ Check2

\* The pose callbacks statement by statement, as the executor of main runs
\* them.
SpecSteps == Init /\ [][NextSteps]_vars

\* ------------------------------------------------- vocabulary of the claims
PoseCallbacks == {"pose_callback_turtle1", "pose_callback_turtle2"}

\* The agent whose pose callback ran last.
Updated == IF callback = "pose_callback_turtle1" THEN "turtle1" ELSE "turtle2"

PoseOf(name) == IF name = "turtle1" THEN turtle1_pose ELSE turtle2_pose

BothKnown == turtle1_pose # None /\ turtle2_pose # None

\* Squared distance of the stored poses, in squared half units (4 is 1.0^2).
SquaredDistance ==
    (turtle1_pose.x - turtle2_pose.x) * (turtle1_pose.x - turtle2_pose.x)
    + (turtle1_pose.y - turtle2_pose.y) * (turtle1_pose.y - turtle2_pose.y)

Closer == BothKnown /\ SquaredDistance < 4

StopCmd == [linear |-> 0, angular |-> 0]

AdvanceCmd == [linear |-> 20, angular |-> 0]

CruiseCmd == [linear |-> 20, angular |-> 0]

TurnCmd == [linear |-> 10, angular |-> 9]

StrictlyBeyond(p) == p.x > 18 \/ p.x < 4 \/ p.y > 18 \/ p.y < 4

StrictlyInside(p) == 4 < p.x /\ p.x < 18 /\ 4 < p.y /\ p.y < 18

OnMargin(p) == p.x = 4 \/ p.x = 18 \/ p.y = 4 \/ p.y = 18

\* The steering command the source computes for a pose: turn strictly beyond
\* a margin boundary, cruise otherwise.
Baseline(p) == IF StrictlyBeyond(p) THEN TurnCmd ELSE CruiseCmd

BaselineMsg == [topic |-> Updated, cmd |-> Baseline(pose_msg), by |-> "move_turtle"]

StopMsg == [topic |-> "turtle1", cmd |-> StopCmd, by |-> "avoid_collision"]

AdvanceMsg == [topic |-> "turtle2", cmd |-> AdvanceCmd, by |-> "avoid_collision"]

Overridden == \E i \in 1..Len(emitted) : emitted[i].by = "avoid_collision"

\* ------------------------------------------------------------------ claims

\* C1: no velocity command is ever published to an agent that has not yet
\* reported a pose: every message of the latest handler, and the latest
\* message standing on either topic, is for an agent whose stored pose is set.
C1_NoCommandBeforePose ==
    /\ turtle1_cmd_vel # NoCmd => turtle1_pose # None
    /\ turtle2_cmd_vel # NoCmd => turtle2_pose # None
    /\ \A i \in 1..Len(emitted) : PoseOf(emitted[i].topic) # None

\* C1 witness: turtle1 has reported and been commanded while turtle2 has
\* neither reported nor been sent anything.
C1_Witness ==
    /\ callback = "pose_callback_turtle1"
    /\ turtle2_pose = None
    /\ turtle1_cmd_vel # NoCmd
    /\ turtle2_cmd_vel = NoCmd
    /\ Len(emitted) = 1

\* C2: when a pose update leaves both poses known and closer than 1.0, then
\* after the update the latest command to turtle1 is the full stop and the
\* latest command to turtle2 is {2.0, 0.0}, and the update published to both
\* agents, whichever agent updated and whatever its baseline command was.
C2_ConflictOverride ==
    callback \in PoseCallbacks /\ Closer =>
        /\ turtle1_cmd_vel = StopCmd
        /\ turtle2_cmd_vel = AdvanceCmd
        /\ \E i \in 1..Len(emitted) : emitted[i].topic = "turtle1"
        /\ \E i \in 1..Len(emitted) : emitted[i].topic = "turtle2"

\* C2 witness: turtle2's update brings it within 1.0 of turtle1 with a turn
\* command as its baseline, and the advance command stands on its topic.
C2_Witness ==
    /\ callback = "pose_callback_turtle2"
    /\ Closer
    /\ emitted[1].cmd = TurnCmd
    /\ turtle2_cmd_vel = AdvanceCmd
    /\ turtle1_cmd_vel = StopCmd

\* C3 as stated: on an update detected as in conflict the messages published
\* are exactly the two overridden commands, and the baseline is not published.
C3_OnlyOverridesPublished ==
    callback \in PoseCallbacks /\ Closer =>
        /\ Len(emitted) = 2
        /\ \A i \in 1..Len(emitted) : emitted[i].by # "move_turtle"

\* C3 amended: on an update detected as in conflict three messages are
\* published, in order: the baseline steering command to the updating agent,
\* then the stop to turtle1, then the advance to turtle2; the overrides are
\* the latest message on both topics.
C3_BaselineThenOverrides ==
    callback \in PoseCallbacks /\ Closer =>
        /\ emitted = <<BaselineMsg, StopMsg, AdvanceMsg>>
        /\ turtle1_cmd_vel = StopCmd
        /\ turtle2_cmd_vel = AdvanceCmd

\* C3 witness: turtle1's update is in conflict and its turn baseline went out
\* before the stop.
C3_Witness ==
    /\ callback = "pose_callback_turtle1"
    /\ Closer
    /\ Len(emitted) = 3
    /\ emitted[1] = [topic |-> "turtle1", cmd |-> TurnCmd, by |-> "move_turtle"]
    /\ emitted[2].cmd = StopCmd

\* C4: a pose update for X that leaves both poses known and at distance >= 1.0
\* publishes exactly one message, X's baseline steering command to X, and
\* leaves the latest command of the other agent as it was.
C4_ClearPublishesOne ==
    [][(callback' \in PoseCallbacks /\ BothKnown' /\ ~Closer') =>
          /\ emitted' = <<BaselineMsg'>>
          /\ callback' = "pose_callback_turtle1" =>
                 /\ turtle2_cmd_vel' = turtle2_cmd_vel
                 /\ turtle1_cmd_vel' = Baseline(pose_msg')
          /\ callback' = "pose_callback_turtle2" =>
                 /\ turtle1_cmd_vel' = turtle1_cmd_vel
                 /\ turtle2_cmd_vel' = Baseline(pose_msg')]_vars

\* C4 witness: turtle2 updated clear of turtle1, one message went out, and
\* the stop of an earlier conflict still stands on turtle1's topic.
C4_Witness ==
    /\ callback = "pose_callback_turtle2"
    /\ BothKnown
    /\ ~Closer
    /\ Len(emitted) = 1
    /\ turtle1_cmd_vel = StopCmd

\* C5: while at least one agent has never reported a pose, every pose update
\* publishes only the updating agent's baseline steering command and no
\* message of avoid_collision; no stop stands on either topic.
C5_NoDetectionUntilBothKnown ==
    callback \in PoseCallbacks /\ ~BothKnown =>
        /\ emitted = <<BaselineMsg>>
        /\ ~Overridden
        /\ turtle1_cmd_vel # StopCmd
        /\ turtle2_cmd_vel # StopCmd

\* C5 witness: only turtle2 has reported, from beyond a margin boundary, and
\* its turn command is all that was published.
C5_Witness ==
    /\ callback = "pose_callback_turtle2"
    /\ turtle1_pose = None
    /\ emitted = <<[topic |-> "turtle2", cmd |-> TurnCmd, by |-> "move_turtle"]>>
    /\ turtle1_cmd_vel = NoCmd
\* C6: the conflict test is a strict inequality on the Euclidean distance:
\* with both poses known, a pose update publishes the override of
\* avoid_collision if and only if dx^2 + dy^2 < 1.0^2; at a distance of
\* exactly 1.0 there is no override.
C6_StrictDistanceTest ==
    callback \in PoseCallbacks /\ BothKnown =>
        /\ Overridden <=> SquaredDistance < 4
        /\ SquaredDistance = 4 => Len(emitted) = 1

\* C6 witness: an update leaves the two agents exactly 1.0 apart and only
\* the baseline was published.
C6_Witness ==
    /\ callback \in PoseCallbacks
    /\ BothKnown
    /\ SquaredDistance = 4
    /\ ~Overridden
    /\ Len(emitted) = 1

\* C7 as stated: for every pose with a coordinate exactly on a margin
\* boundary, and for every pose beyond one, the baseline command is the turn
\* command.
C7_InclusiveBoundary ==
    callback \in PoseCallbacks /\ (OnMargin(pose_msg) \/ StrictlyBeyond(pose_msg)) =>
        /\ Len(emitted) >= 1
        /\ emitted[1].cmd = TurnCmd

\* C7 amended: the boundary test is exclusive: a pose with a coordinate
\* exactly on a margin boundary and none strictly beyond one gets the cruise
\* command {2.0, 0.0}; every pose with a coordinate strictly beyond a margin
\* boundary gets the turn command {1.0, 0.9}.
C7_ExclusiveBoundary ==
    callback \in PoseCallbacks =>
        /\ Len(emitted) >= 1
        /\ emitted[1].by = "move_turtle"
        /\ OnMargin(pose_msg) /\ ~StrictlyBeyond(pose_msg) => emitted[1].cmd = CruiseCmd
        /\ StrictlyBeyond(pose_msg) => emitted[1].cmd = TurnCmd

\* C7 witness: a pose with x exactly 2.0 and y inside was given the cruise
\* command.
C7_Witness ==
    /\ callback \in PoseCallbacks
    /\ pose_msg.x = 4
    /\ pose_msg.y = 5
    /\ emitted[1].cmd = CruiseCmd

\* C8: for every pose strictly inside the margins the baseline published by
\* move_turtle is the cruise command, for every pose strictly beyond a margin
\* boundary it is the turn command, whatever the heading, the other agent's
\* pose, the conflict state and the earlier updates.
C8_BaselineFromPositionOnly ==
    callback \in PoseCallbacks =>
        /\ Len(emitted) >= 1
        /\ emitted[1].by = "move_turtle"
        /\ emitted[1].topic = Updated
        /\ StrictlyInside(pose_msg) => emitted[1].cmd = CruiseCmd
        /\ StrictlyBeyond(pose_msg) => emitted[1].cmd = TurnCmd
        /\ \A i \in 2..Len(emitted) : emitted[i].by # "move_turtle"

\* C8 witness: a pose strictly inside the margins, with a non-zero heading
\* and in conflict with the other agent, was given the cruise baseline.
C8_Witness ==
    /\ callback = "pose_callback_turtle1"
    /\ StrictlyInside(pose_msg)
    /\ pose_msg.theta = 1
    /\ Closer
    /\ emitted[1].cmd = CruiseCmd
    /\ turtle1_cmd_vel = StopCmd

C10_PreviousIsPrior ==
    [][/\ callback' = "pose_callback_turtle1" /\ turtle1_pose # None =>
              /\ turtle1_pose' = pose_msg'
              /\ previous_x_turtle1' = turtle1_pose.x
              /\ previous_y_turtle1' = turtle1_pose.y
              /\ UNCHANGED <<turtle2_pose, previous_x_turtle2, previous_y_turtle2>>
       /\ callback' = "pose_callback_turtle2" /\ turtle2_pose # None =>
              /\ turtle2_pose' = pose_msg'
              /\ previous_x_turtle2' = turtle2_pose.x
              /\ previous_y_turtle2' = turtle2_pose.y
              /\ UNCHANGED <<turtle1_pose, previous_x_turtle1, previous_y_turtle1>>]_vars

\* C10 amended: after a pose update for X with pose p, X's current pose is p
\* and X's previous position is the position of p itself (it is overwritten
\* in the same update, so the position held before is not kept); the other
\* agent's current pose and previous position are unchanged.
C10_PreviousIsNew ==
    [][/\ callback' = "pose_callback_turtle1" =>
              /\ turtle1_pose' = pose_msg'
              /\ previous_x_turtle1' = pose_msg'.x
              /\ previous_y_turtle1' = pose_msg'.y
              /\ UNCHANGED <<turtle2_pose, previous_x_turtle2, previous_y_turtle2>>
       /\ callback' = "pose_callback_turtle2" =>
              /\ turtle2_pose' = pose_msg'
              /\ previous_x_turtle2' = pose_msg'.x
              /\ previous_y_turtle2' = pose_msg'.y
              /\ UNCHANGED <<turtle1_pose, previous_x_turtle1, previous_y_turtle1>>]_vars

\* C10 witness: turtle2 has updated, its previous position equals its
\* current one, and turtle1 keeps a different pose and previous position.
C10_Witness ==
    /\ callback = "pose_callback_turtle2"
    /\ turtle1_pose # None
    /\ previous_x_turtle2 = turtle2_pose.x
    /\ previous_y_turtle2 = turtle2_pose.y
    /\ previous_x_turtle1 = turtle1_pose.x
    /\ previous_x_turtle1 # previous_x_turtle2
\* C11 as stated: in every state where both poses are known and the latest
\* pair is not in conflict, the command last published to each agent is a
\* steering-policy output, and no stop of an earlier conflict is left
\* standing.
C11_NoStandingOverride ==
    BothKnown /\ ~Closer =>
        /\ turtle1_cmd_vel \in {CruiseCmd, TurnCmd}
        /\ turtle2_cmd_vel \in {CruiseCmd, TurnCmd}

\* C11 amended: after a pose update that leaves both poses known and not in
\* conflict, the command last published to the agent that updated is the
\* steering output for its new pose; the other agent's last command is left
\* standing, so the stop of an earlier conflict can remain on turtle1's topic,
\* and only when turtle2 was the one that updated; no stop ever stands on
\* turtle2's topic.
C11_UpdaterRevertsToSteering ==
    callback \in PoseCallbacks /\ BothKnown /\ ~Closer =>
        /\ callback = "pose_callback_turtle1" => turtle1_cmd_vel = Baseline(turtle1_pose)
        /\ callback = "pose_callback_turtle2" => turtle2_cmd_vel = Baseline(turtle2_pose)
        /\ turtle1_cmd_vel = StopCmd => callback = "pose_callback_turtle2"
        /\ turtle2_cmd_vel # StopCmd

\* C11 witness: turtle2 updated out of a conflict from beyond a margin
\* boundary, and turtle1 is left with the stop.
C11_Witness ==
    /\ callback = "pose_callback_turtle2"
    /\ BothKnown
    /\ ~Closer
    /\ turtle1_cmd_vel = StopCmd
    /\ turtle2_cmd_vel = TurnCmd

\* The messages a pose update publishes, as a function of the agent that
\* updated and of the pair of poses after the update.
PublishedFor(agent, p1, p2) ==
    LET own == IF agent = "turtle1" THEN p1 ELSE p2
        base == [topic |-> agent, cmd |-> Baseline(own), by |-> "move_turtle"]
        d2 == (p1.x - p2.x) * (p1.x - p2.x) + (p1.y - p2.y) * (p1.y - p2.y)
    IN  IF p1 # None /\ p2 # None /\ d2 < 4
        THEN <<base, StopMsg, AdvanceMsg>>
        ELSE <<base>>

\* C12: the controller is memoryless: the sequence of commands published
\* while processing a pose update is a function only of which agent updated
\* and of the latest pair of poses after the update, whatever happened on
\* earlier updates.
C12_Memoryless ==
    callback \in PoseCallbacks =>
        emitted = PublishedFor(Updated, turtle1_pose, turtle2_pose)

\* C12 witness: turtle1 updated clear of turtle2 after an earlier conflict
\* (the advance still stands on the topic of turtle2, which is beyond a
\* margin boundary), and published its baseline alone.
C12_Witness ==
    /\ callback = "pose_callback_turtle1"
    /\ BothKnown
    /\ ~Closer
    /\ StrictlyBeyond(turtle2_pose)
    /\ turtle2_cmd_vel = AdvanceCmd
    /\ Len(emitted) = 1

\* C13: conflict detection is symmetric in the two agents: the decision taken
\* with turtle1 at a and turtle2 at b is the decision the test gives with the
\* two poses exchanged.
C13_DetectionSymmetric ==
    callback \in PoseCallbacks /\ BothKnown =>
        /\ Overridden <=> distance_below(turtle2_pose, turtle1_pose)
        /\ distance_below(turtle1_pose, turtle2_pose)
               <=> distance_below(turtle2_pose, turtle1_pose)

\* C13 witness: a conflict was detected between two poses that differ in
\* both coordinates, in opposite directions.
C13_Witness ==
    /\ callback \in PoseCallbacks
    /\ BothKnown
    /\ Overridden
    /\ turtle1_pose.x < turtle2_pose.x
    /\ turtle1_pose.y > turtle2_pose.y

\* C14: two agents whose latest poses have the same position are always
\* detected as in conflict: the update triggers the override.
C14_SamePositionConflicts ==
    (/\ callback \in PoseCallbacks
     /\ BothKnown
     /\ turtle1_pose.x = turtle2_pose.x
     /\ turtle1_pose.y = turtle2_pose.y) =>
        /\ Overridden
        /\ Len(emitted) = 3
        /\ turtle1_cmd_vel = StopCmd
        /\ turtle2_cmd_vel = AdvanceCmd

\* C14 witness: the two agents report the same position with different
\* headings and the override was published.
C14_Witness ==
    /\ callback \in PoseCallbacks
    /\ BothKnown
    /\ turtle1_pose.x = turtle2_pose.x
    /\ turtle1_pose.y = turtle2_pose.y
    /\ turtle1_pose.theta # turtle2_pose.theta
    /\ Overridden
ServiceCallbacks == {"spawn_callback", "callback_set_pen"}

\* C16: a failure reported by the spawn or set_pen service is recovered
\* locally: the completion callback only logs, raises nothing, publishes no
\* command and leaves both stored poses, the previous positions and both
\* topics unchanged; a pose update can always follow, and the pose update
\* that follows a failure stores its pose and publishes its commands as usual.
C16_ServiceFailureContained ==
    /\ [](callback \in ServiceCallbacks /\ logged = "error" =>
              ENABLED FewPoseTurtle1 /\ ENABLED FewPoseTurtle2)
    /\ [][/\ callback' \in ServiceCallbacks =>
                 /\ emitted' = <<>>
                 /\ ~raised'
                 /\ logged' \in {"none", "info", "error"}
                 /\ UNCHANGED <<turtle1_pose, turtle2_pose, previous_x_turtle1,
                                previous_y_turtle1, previous_x_turtle2,
                                previous_y_turtle2, turtle1_cmd_vel,
                                turtle2_cmd_vel>>
          /\ (/\ callback \in ServiceCallbacks
              /\ logged = "error"
              /\ callback' \in PoseCallbacks) =>
                 /\ PoseOf(Updated)' = pose_msg'
                 /\ emitted' = PublishedFor(Updated, turtle1_pose, turtle2_pose)'
                 /\ ~raised']_vars

\* C16 witness: the spawn failed after both agents were tracked; it was
\* logged as an error, nothing was published and the poses stand.
C16_Witness ==
    /\ callback = "spawn_callback"
    /\ logged = "error"
    /\ BothKnown
    /\ emitted = <<>>
    /\ ~raised
    /\ turtle1_cmd_vel = StopCmd
\* C15: pose updates are processed one at a time to completion: the two pose
\* callbacks are never both part-way through; while one is, its stored pose
\* is the one it was given, the sink holds only its own messages so far, and
\* the other agent's stored pose does not change; when it returns, the sink
\* holds exactly the commands of that one update.
C15_OneUpdateAtATime ==
    /\ [](/\ ~(pc1 # "idle" /\ pc2 # "idle")
          /\ pc1 # "idle" =>
                 /\ callback = "pose_callback_turtle1"
                 /\ turtle1_pose = pose_msg
          /\ pc2 # "idle" =>
                 /\ callback = "pose_callback_turtle2"
                 /\ turtle2_pose = pose_msg
          /\ (pc1 = "move_turtle" \/ pc2 = "move_turtle") => emitted = <<>>
          /\ (pc1 = "check_collision" \/ pc2 = "check_collision") =>
                 emitted = <<BaselineMsg>>
          /\ (pc1 = "idle" /\ pc2 = "idle" /\ callback \in PoseCallbacks) =>
                 emitted = PublishedFor(Updated, turtle1_pose, turtle2_pose))
    /\ [][/\ pc1 # "idle" => turtle2_pose' = turtle2_pose
          /\ pc2 # "idle" => turtle1_pose' = turtle1_pose]_vars

\* C15 witness: pose_callback_turtle1 is part-way through, about to run
\* check_collision on a pair in conflict, with only its baseline published
\* and pose_callback_turtle2 not running.
C15_Witness ==
    /\ pc1 = "check_collision"
    /\ pc2 = "idle"
    /\ Closer
    /\ emitted = <<[topic |-> "turtle1", cmd |-> CruiseCmd, by |-> "move_turtle"]>>
    /\ turtle1_cmd_vel = CruiseCmd
====
